---- MODULE Spec2Model ----
(***************************************************************************)
(* decern-gate: the judge-diff builder (src/src/judge-diff.ts) and the     *)
(* gate orchestrator run() (src/src/main.ts).                              *)
(*                                                                         *)
(* Text is modelled as a sequence of tokens.  A token [k, p, n] stands for *)
(* n UTF-16 code units of one kind of text:                                *)
(*   "hdr"      diff --git a/<p> b/<p>      (the per-file marker line)     *)
(*   "raw"      diff --git <p> <p>          (a marker without a/ b/)       *)
(*   "nl"       a newline                                                  *)
(*   "binfiles" the words "Binary files "                                  *)
(*   "differ"   the word " differ"                                         *)
(*   "t1"       n ASCII characters            (1 byte each in UTF-8)       *)
(*   "t3"       n BMP characters such as the euro sign (3 bytes each)      *)
(* A token whose n is smaller than the full length of its kind is a        *)
(* prefix of that text, which is what String.prototype.slice leaves.       *)
(***************************************************************************)
EXTENDS Integers, Sequences, FiniteSets, TLC

VARIABLES
    \* ---- getDiffForJudge (judge-diff.ts) ----
    dpc,            \* position in getDiffForJudge: "start", "loop", "done" (returned at
                    \* line 141) or "caught" (returned from the catch at line 96)
    base, head,     \* the arguments
    fullRaw,        \* what git diff returned
    segments,       \* splitDiffByFile(fullRaw)
    segi,           \* index of the segment the for-loop is at
    included,       \* included[]
    includedFrom,   \* history: for each entry of included, the index of its segment
    totalBytes,
    didTruncate,
    excludedFiles,  \* excludedFiles[] before deduplication
    dresult,        \* the JudgeDiffResult returned
    \* ---- run (main.ts) ----
    pc,             \* position in run()
    env,            \* the configuration read from the environment
    changedFiles,   \* [computed, files]: the result of getChangedFiles
    text,           \* getPrOrCommitText()
    ids,
    vi,             \* index of the reference the validation loop is at
    validated,      \* history: references whose validateRef returned ok
    events,         \* history: the external calls made, in order
    out,            \* the lines logged that name missing variables
    judgeResult,
    exitCode        \* what run() returned: "none" (not yet), "0", "1", or "threw"

dvars == <<dpc, base, head, fullRaw, segments, segi, included, includedFrom,
           totalBytes, didTruncate, excludedFiles, dresult>>
rvars == <<pc, env, changedFiles, text, ids, vi, validated, events, out, judgeResult, exitCode>>
vars == <<dvars, rvars>>

-----------------------------------------------------------------------------
(* Bounds of the model *)

\* the largest number of file sections in a raw diff
MaxSegs == 4

-----------------------------------------------------------------------------
(* Constants of judge-diff.ts *)

MAX_DIFF_BYTES == 2 * 1024 * 1024
MAX_FILE_DIFF_BYTES == 1 * 1024 * 1024

Ext(a, b, c) == <<".", a, b, c>>
Ext4(a, b, c, d) == <<".", a, b, c, d>>

IMAGE_OR_HEAVY_EXTENSIONS ==
    { Ext("p","n","g"), Ext("j","p","g"), Ext4("j","p","e","g"), Ext("g","i","f"),
      Ext4("w","e","b","p"), Ext("i","c","o"), Ext("b","m","p"), Ext4("t","i","f","f"),
      Ext("t","i","f"), Ext("s","v","g"), Ext4("a","v","i","f"), Ext4("h","e","i","c"),
      Ext4("w","e","b","m"), Ext("m","p","4"), Ext("m","o","v"), Ext("a","v","i"),
      Ext("p","d","f"), <<".","w","o","f","f","2">>, Ext4("w","o","f","f"),
      Ext("t","t","f"), Ext("e","o","t"), Ext("o","t","f") }

-----------------------------------------------------------------------------
(* Text *)

Tok(k, p, n) == [k |-> k, p |-> p, n |-> n]

\* the number of UTF-16 code units of the whole text of a token's kind
FullLen(t) ==
    CASE t.k = "hdr" -> 13 + Len(t.p) + 3 + Len(t.p)
      [] t.k = "raw" -> 11 + Len(t.p) + 1 + Len(t.p)
      [] t.k = "nl" -> 1
      [] t.k = "binfiles" -> 13
      [] t.k = "differ" -> 7
      [] OTHER -> t.n

\* Buffer.byteLength(s, "utf-8") of one token
TokBytes(t) ==
    CASE t.k = "t3" -> 3 * t.n
      [] OTHER -> t.n

RECURSIVE byteLength(_)
byteLength(s) == IF s = <<>> THEN 0 ELSE TokBytes(Head(s)) + byteLength(Tail(s))

\* s.slice(0, m): the first m UTF-16 code units of s
RECURSIVE slice(_, _)
slice(s, m) ==
    IF s = <<>> \/ m <= 0 THEN <<>>
    ELSE IF Head(s).n <= m THEN <<Head(s)>> \o slice(Tail(s), m - Head(s).n)
    ELSE <<Tok(Head(s).k, Head(s).p, m)>>

\* s.trim(): newlines are the only white space at the ends of the texts modelled
RECURSIVE trimStart(_)
trimStart(s) == IF s # <<>> /\ Head(s).k = "nl" THEN trimStart(Tail(s)) ELSE s

RECURSIVE trimEnd(_)
trimEnd(s) ==
    IF s # <<>> /\ s[Len(s)].k = "nl" THEN trimEnd(SubSeq(s, 1, Len(s) - 1)) ELSE s

trim(s) == trimEnd(trimStart(s))

\* parts.join("\n")
RECURSIVE join_noSeparator(_)
join_noSeparator(parts) ==
    IF parts = <<>> THEN <<>> ELSE Head(parts) \o join_noSeparator(Tail(parts))

RECURSIVE join(_)
join(parts) ==
    IF parts = <<>> THEN <<>>
    ELSE IF Len(parts) = 1 THEN parts[1]
    ELSE parts[1] \o <<Tok("nl", <<>>, 1)>> \o join(Tail(parts))

Min(S) == CHOOSE x \in S : \A y \in S : x <= y

-----------------------------------------------------------------------------
(* isImageOrHeavyByPath *)

toLowerCase(c) ==
    CASE c = "P" -> "p" [] c = "N" -> "n" [] c = "G" -> "g" [] c = "D" -> "d"
      [] c = "F" -> "f" [] c = "S" -> "s" [] c = "V" -> "v" [] OTHER -> c

normalizePath(path) ==
    [i \in 1..Len(path) |-> IF path[i] = "\\" THEN "/" ELSE toLowerCase(path[i])]

extOf(normalized) ==
    IF \E i \in 1..Len(normalized) : normalized[i] = "."
    THEN LET last == CHOOSE i \in 1..Len(normalized) :
                        /\ normalized[i] = "."
                        /\ \A j \in (i+1)..Len(normalized) : normalized[j] # "."
         IN SubSeq(normalized, last, Len(normalized))
    ELSE <<>>

isImageOrHeavyByPath_noLower(path) == extOf(path) \in IMAGE_OR_HEAVY_EXTENSIONS

isImageOrHeavyByPath(path) == extOf(normalizePath(path)) \in IMAGE_OR_HEAVY_EXTENSIONS

-----------------------------------------------------------------------------
(* splitDiffByFile, pathFromSegment, segmentIsBinary *)

\* the text at i is "\ndiff --git ": where /(?=\ndiff --git )/ matches
MarkerAt(s, i) ==
    /\ i + 1 <= Len(s)
    /\ s[i].k = "nl"
    /\ s[i+1].k \in {"hdr", "raw"}
    /\ s[i+1].n >= 11

RECURSIVE splitFrom(_, _)
splitFrom(s, start) ==
    IF start > Len(s) THEN <<>>
    ELSE LET nexts == {i \in (start+1)..Len(s) : MarkerAt(s, i)}
         IN IF nexts = {} THEN <<SubSeq(s, start, Len(s))>>
            ELSE <<SubSeq(s, start, Min(nexts) - 1)>> \o splitFrom(s, Min(nexts))

RECURSIVE filterNonEmpty(_)
filterNonEmpty(parts) ==
    IF parts = <<>> THEN <<>>
    ELSE IF Head(parts) = <<>> THEN filterNonEmpty(Tail(parts))
    ELSE <<Head(parts)>> \o filterNonEmpty(Tail(parts))

splitDiffByFile(rawDiff) ==
    IF rawDiff = <<>> \/ trim(rawDiff) = <<>> THEN <<>>
    ELSE LET pieces == splitFrom(rawDiff, 1)
             segs == filterNonEmpty([i \in 1..Len(pieces) |-> trim(pieces[i])])
             first == trimStart(rawDiff)
         IN IF segs = <<>> /\ first[1].k \in {"hdr", "raw"} /\ first[1].n >= 11
            THEN <<first>>
            ELSE segs

\* the path of "diff --git a/<path> b/", or "" (here <<>>) when the line does not match
pathFromSegment(segment) ==
    IF /\ segment # <<>>
       /\ segment[1].k = "hdr"
       /\ Len(segment[1].p) > 0
       /\ segment[1].n >= 13 + Len(segment[1].p) + 3
    THEN segment[1].p
    ELSE <<>>

segmentIsBinary(segment) ==
    /\ \E i \in 1..Len(segment) : segment[i].k = "binfiles" /\ segment[i].n = 13
    /\ \E i \in 1..Len(segment) : segment[i].k = "differ" /\ segment[i].n = 7

-----------------------------------------------------------------------------
(* getDiffForJudge: the pieces of the loop body *)

\* lines 113-117: isImage || isBinary || overSize
isExcluded_noBinary(seg) ==
    \/ (pathFromSegment(seg) # <<>> /\ isImageOrHeavyByPath(pathFromSegment(seg)))
    \/ byteLength(seg) > MAX_FILE_DIFF_BYTES

isExcluded_noOverSize(seg) ==
    \/ (pathFromSegment(seg) # <<>> /\ isImageOrHeavyByPath(pathFromSegment(seg)))
    \/ segmentIsBinary(seg)

isExcluded(seg) ==
    \/ (pathFromSegment(seg) # <<>> /\ isImageOrHeavyByPath(pathFromSegment(seg)))
    \/ segmentIsBinary(seg)
    \/ byteLength(seg) > MAX_FILE_DIFF_BYTES

\* line 118, 133: if (path) excludedFiles.push(path)
pushPath(list, path) == IF path # <<>> THEN Append(list, path) ELSE list

\* line 122: totalBytes + segBytes <= MAX_DIFF_BYTES
fitsWhole(total, segBytes) == total + segBytes <= MAX_DIFF_BYTES

\* line 139: didTruncate || totalRawBytes > MAX_DIFF_BYTES
truncatedFlag_onlyCut(cut, raw) == cut

truncatedFlag(cut, raw) == cut \/ byteLength(raw) > MAX_DIFF_BYTES

\* line 143: [...new Set(excludedFiles)], which keeps the first of equal entries
RECURSIVE dedupe_keepLast(_)
dedupe_keepLast(list) ==
    IF list = <<>> THEN <<>>
    ELSE IF \E j \in 2..Len(list) : list[j] = Head(list)
         THEN dedupe_keepLast(Tail(list))
         ELSE <<Head(list)>> \o dedupe_keepLast(Tail(list))

RECURSIVE dedupeFrom(_, _)
dedupeFrom(list, seen) ==
    IF list = <<>> THEN <<>>
    ELSE IF Head(list) \in seen THEN dedupeFrom(Tail(list), seen)
         ELSE <<Head(list)>> \o dedupeFrom(Tail(list), seen \cup {Head(list)})

dedupe(list) == dedupeFrom(list, {})

\* lines 96-102: what the catch of a failed git diff returns
emptyResult_swapped(b, h) ==
    [diff |-> <<>>, excludedFiles |-> <<>>, truncated |-> FALSE, base |-> h, head |-> b]

emptyResult(b, h) ==
    [diff |-> <<>>, excludedFiles |-> <<>>, truncated |-> FALSE, base |-> b, head |-> h]

-----------------------------------------------------------------------------
(* The raw diffs git returns in the model *)

PathA == <<"a">>
PathB == <<"b", ".", "t", "s">>
PathC == <<"c", ".", "P", "N", "G">>

NL == Tok("nl", <<>>, 1)
Marker(hk, p) == Tok(hk, p, FullLen(Tok(hk, p, 0)))

\* one file section: the marker line, an optional "Binary files ... differ" line,
\* and a body of n code units of kind tk; every line ends with a newline
Section(s) ==
    <<Marker(s.hk, s.p), NL>>
    \o (IF s.bin
        THEN <<Tok("binfiles", <<>>, 13), Tok("t1", <<>>, 12), Tok("differ", <<>>, 7), NL>>
        ELSE <<>>)
    \o <<Tok(s.tk, <<>>, s.n), NL>>

Sec(hk, p, bin, tk, n) == [hk |-> hk, p |-> p, bin |-> bin, tk |-> tk, n |-> n]

Templates ==
    { Sec("hdr", PathA, FALSE, "t1", 40),
      Sec("hdr", PathA, FALSE, "t1", 512000),       \* 500 KB of text
      Sec("hdr", PathB, FALSE, "t1", 1000000),
      Sec("hdr", PathB, FALSE, "t1", 1258291),      \* 1.2 MB of text
      Sec("hdr", PathA, FALSE, "t1", 3145728),      \* 3 MB of text
      Sec("hdr", PathC, FALSE, "t1", 40),
      Sec("hdr", PathC, FALSE, "t1", 1000000),
      Sec("hdr", PathA, FALSE, "t3", 300000),       \* 900 000 bytes in 300 000 characters
      Sec("raw", PathB, TRUE, "t1", 40) }

RECURSIVE concat(_)
concat(parts) == IF parts = <<>> THEN <<>> ELSE Head(parts) \o concat(Tail(parts))

\* the raw diff made of the sections f[1], ..., f[n]
RawDiff(f) == concat([i \in DOMAIN f |-> Section(f[i])])

\* the revisions getDiffForJudge is called with; in the repository of the model
\* origin/main and HEAD resolve, and HEAD~1 does not (a clone of depth 1)
RevisionPairs == { <<"origin/main", "HEAD">>, <<"HEAD~1", "HEAD">> }
Resolvable == {"origin/main", "HEAD"}

-----------------------------------------------------------------------------
(* getDiffForJudge as a state machine *)

DiffInit ==
    /\ dpc = "start"
    /\ \E pair \in RevisionPairs : base = pair[1] /\ head = pair[2]
    /\ fullRaw = <<>>
    /\ segments = <<>>
    /\ segi = 1
    /\ included = <<>>
    /\ includedFrom = <<>>
    /\ totalBytes = 0
    /\ didTruncate = FALSE
    /\ excludedFiles = <<>>
    /\ dresult = [diff |-> <<>>, excludedFiles |-> <<>>, truncated |-> FALSE,
                  base |-> "", head |-> ""]

\* lines 90-94, 105-108: git diff succeeds
DiffExec ==
    /\ dpc = "start"
    /\ base \in Resolvable /\ head \in Resolvable
    /\ \E n \in 0..MaxSegs : \E f \in [1..n -> Templates] :
          /\ fullRaw' = RawDiff(f)
          /\ segments' = splitDiffByFile(RawDiff(f))
    /\ dpc' = "loop"
    /\ UNCHANGED <<base, head, segi, included, includedFrom, totalBytes, didTruncate,
                   excludedFiles, dresult>>
    /\ UNCHANGED rvars

\* lines 95-103: git diff throws (an unknown revision, or no repository at all)
DiffExecFail ==
    /\ dpc = "start"
    /\ dresult' = emptyResult(base, head)
    /\ dpc' = "caught"
    /\ UNCHANGED <<base, head, fullRaw, segments, segi, included, includedFrom,
                   totalBytes, didTruncate, excludedFiles>>
    /\ UNCHANGED rvars

\* lines 110-120: a segment that is an image, binary or over 1 MiB
LoopExclude ==
    /\ dpc = "loop"
    /\ segi <= Len(segments)
    /\ isExcluded(segments[segi])
    /\ excludedFiles' = pushPath(excludedFiles, pathFromSegment(segments[segi]))
    /\ segi' = segi + 1
    /\ UNCHANGED <<dpc, base, head, fullRaw, segments, included, includedFrom,
                   totalBytes, didTruncate, dresult>>
    /\ UNCHANGED rvars

\* lines 122-124: the segment fits
LoopAdmit ==
    /\ dpc = "loop"
    /\ segi <= Len(segments)
    /\ ~isExcluded(segments[segi])
    /\ fitsWhole(totalBytes, byteLength(segments[segi]))
    /\ included' = Append(included, segments[segi])
    /\ includedFrom' = Append(includedFrom, segi)
    /\ totalBytes' = totalBytes + byteLength(segments[segi])
    /\ segi' = segi + 1
    /\ UNCHANGED <<dpc, base, head, fullRaw, segments, didTruncate, excludedFiles, dresult>>
    /\ UNCHANGED rvars

\* lines 125-134 with line 129 left out: the running total stays where it was
LoopOverBudget_noCeiling ==
    /\ dpc = "loop"
    /\ segi <= Len(segments)
    /\ ~isExcluded(segments[segi])
    /\ ~fitsWhole(totalBytes, byteLength(segments[segi]))
    /\ LET remaining == MAX_DIFF_BYTES - totalBytes
       IN IF remaining > 0
          THEN /\ included' = Append(included, slice(segments[segi], remaining))
               /\ includedFrom' = Append(includedFrom, segi)
               /\ UNCHANGED totalBytes
               /\ didTruncate' = TRUE
          ELSE UNCHANGED <<included, includedFrom, totalBytes, didTruncate>>
    /\ excludedFiles' = pushPath(excludedFiles, pathFromSegment(segments[segi]))
    /\ segi' = segi + 1
    /\ UNCHANGED <<dpc, base, head, fullRaw, segments, dresult>>
    /\ UNCHANGED rvars

\* lines 125-134: the segment does not fit
LoopOverBudget ==
    /\ dpc = "loop"
    /\ segi <= Len(segments)
    /\ ~isExcluded(segments[segi])
    /\ ~fitsWhole(totalBytes, byteLength(segments[segi]))
    /\ LET remaining == MAX_DIFF_BYTES - totalBytes
       IN IF remaining > 0
          THEN /\ included' = Append(included, slice(segments[segi], remaining))
               /\ includedFrom' = Append(includedFrom, segi)
               /\ totalBytes' = MAX_DIFF_BYTES
               /\ didTruncate' = TRUE
          ELSE UNCHANGED <<included, includedFrom, totalBytes, didTruncate>>
    /\ excludedFiles' = pushPath(excludedFiles, pathFromSegment(segments[segi]))
    /\ segi' = segi + 1
    /\ UNCHANGED <<dpc, base, head, fullRaw, segments, dresult>>
    /\ UNCHANGED rvars

\* lines 137-147
DiffReturn ==
    /\ dpc = "loop"
    /\ segi > Len(segments)
    /\ dresult' = [diff |-> join(included),
                   excludedFiles |-> dedupe(excludedFiles),
                   truncated |-> truncatedFlag(didTruncate, fullRaw),
                   base |-> base,
                   head |-> head]
    /\ dpc' = "done"
    /\ UNCHANGED <<base, head, fullRaw, segments, segi, included, includedFrom,
                   totalBytes, didTruncate, excludedFiles>>
    /\ UNCHANGED rvars

DiffNext ==
    \/ DiffExec
    \/ DiffExecFail
    \/ LoopExclude
    \/ LoopAdmit
    \/ LoopOverBudget
    \/ DiffReturn

-----------------------------------------------------------------------------
(* main.ts: configuration, policy, reference extraction *)

\* the largest number of reference mentions in the PR or commit text
MaxMentions == 2

JudgeVars == {"DECERN_JUDGE_LLM_BASE_URL", "DECERN_JUDGE_LLM_API_KEY", "DECERN_JUDGE_LLM_MODEL"}

\* The environment, as read at lines 12-59.  baseUrl is "missing" (unset or blank),
\* "ok", or "malformed" (set, but no URL that new URL() accepts).  An optional
\* number is the empty set or a singleton; confidences are in thousandths.
Envs ==
    [ baseUrl : {"missing", "ok", "malformed"},
      token : BOOLEAN,
      judgeEnabled : BOOLEAN,
      judgeMissing : SUBSET JudgeVars,
      minConfidence : {{}, {700}},
      extraPatterns : {{}, {"README.md"}} ]

\* pathMatchesRequired of required-patterns.ts, after the specification: the fixed
\* high-impact patterns (migrations, dependency manifests), and the
\* operator-supplied extra patterns matched against the basename
pathMatchesRequired(f, extra) ==
    \/ f \in {"supabase/migrations/1.sql", "package.json"}
    \/ f \in extra

\* lines 61-67
isDecisionRequired(files, extra) ==
    LET m(f) == pathMatchesRequired(f, extra)
        matched == SelectSeq(files, m)
    IN [required |-> Len(matched) > 0, matched |-> matched]

\* lines 337-339 with only the first missing variable kept
missingEnv_firstOnly(e) ==
    IF e.baseUrl = "missing" THEN <<"DECERN_BASE_URL">>
    ELSE IF ~e.token THEN <<"DECERN_CI_TOKEN">>
    ELSE <<>>

\* lines 337-339
missingEnv(e) ==
    (IF e.baseUrl = "missing" THEN <<"DECERN_BASE_URL">> ELSE <<>>)
    \o (IF ~e.token THEN <<"DECERN_CI_TOKEN">> ELSE <<>>)

\* lines 425-428
missingJudgeEnv(e) ==
    (IF "DECERN_JUDGE_LLM_BASE_URL" \in e.judgeMissing
        THEN <<"DECERN_JUDGE_LLM_BASE_URL">> ELSE <<>>)
    \o (IF "DECERN_JUDGE_LLM_API_KEY" \in e.judgeMissing
        THEN <<"DECERN_JUDGE_LLM_API_KEY">> ELSE <<>>)
    \o (IF "DECERN_JUDGE_LLM_MODEL" \in e.judgeMissing
        THEN <<"DECERN_JUDGE_LLM_MODEL">> ELSE <<>>)

\* A text is a sequence of mentions [form, id]:
\*   "prefix"  decern:<id>       "ticket"  DECERN-<id>
\*   "url"     /decisions/<id>   "adr"     a bare ADR-<n>, id being the whole ADR-<n>
Mention(form, id) == [form |-> form, id |-> id]

AdrIds == {"ADR-1"}

\* what pattern family fam captures from mention m (a set with at most one id):
\* lines 71-75.  ADR_REF also matches the ADR-<n> inside decern:ADR-<n> and the like
capture(fam, m) ==
    CASE fam = "prefix" -> IF m.form = "prefix" THEN {m.id} ELSE {}
      [] fam = "ticket" -> IF m.form = "ticket" THEN {m.id} ELSE {}
      [] fam = "url" -> IF m.form = "url" THEN {m.id} ELSE {}
      [] fam = "adr" -> IF m.id \in AdrIds THEN {m.id} ELSE {}

Families == <<"prefix", "ticket", "url", "adr">>

\* lines 83-89: the ids one pattern adds to the Set, in the order of the text
RECURSIVE scan(_, _, _)
scan(fam, txt, acc) ==
    IF txt = <<>> THEN acc
    ELSE LET got == capture(fam, Head(txt))
             id == CHOOSE x \in got : TRUE
         IN IF got = {} \/ (\E j \in 1..Len(acc) : acc[j] = id)
            THEN scan(fam, Tail(txt), acc)
            ELSE scan(fam, Tail(txt), Append(acc, id))

\* lines 80-91
extractDecisionIds(txt) ==
    IF txt = <<>> THEN <<>>
    ELSE scan(Families[4], txt,
           scan(Families[3], txt,
             scan(Families[2], txt,
               scan(Families[1], txt, <<>>))))

Mentions ==
    { Mention("prefix", "d1"), Mention("ticket", "d1"), Mention("url", "d2"),
      Mention("adr", "ADR-1") }

Texts == UNION { [1..n -> Mentions] : n \in 0..MaxMentions }

\* what git diff --name-only returns in the model
ChangedFileLists ==
    { <<>>, <<"README.md">>, <<"src/foo.ts", "README.md">>, <<"package.json">>,
      <<"src/foo.ts", "supabase/migrations/1.sql">> }

-----------------------------------------------------------------------------
(* main.ts: the two HTTP calls *)

\* what the validation endpoint can do with a request (lines 268-309)
ValidateOutcomes == {"valid", "invalid", "non200", "timeout", "network", "bodyStall"}

\* what the judge endpoint can answer with (lines 147-205): an exception of fetch,
\* or a response
JudgeResponses ==
    [ status : {200, 500},
      allowed : BOOLEAN,
      advisory : BOOLEAN,
      planReason : BOOLEAN,          \* the reason speaks of the plan the judge needs
      confidence : {{}, {500}, {90000}} ]

\* lines 171-176: a confidence above 1 is a percentage
normalizeConfidence(c) == { IF x > 1000 THEN x \div 100 ELSE x : x \in c }

\* lines 158-193: the JudgeResult of a response
judgeResultOf(r) ==
    IF r.status # 200
    THEN [ok |-> FALSE, allowed |-> FALSE, advisory |-> FALSE, planReason |-> FALSE,
          confidence |-> {}]
    ELSE [ok |-> TRUE, allowed |-> r.allowed,
          advisory |-> (~r.allowed /\ r.advisory),
          planReason |-> (~r.allowed /\ r.planReason),
          confidence |-> normalizeConfidence(r.confidence)]

\* lines 194-205: the JudgeResult of a timeout or a network error
judgeFailed ==
    [ok |-> FALSE, allowed |-> FALSE, advisory |-> FALSE, planReason |-> FALSE,
     confidence |-> {}]

\* lines 459-514 without the confidence threshold of lines 488-499
judgeExit_noConfidence(jr, e) ==
    IF ~jr.ok THEN "1"
    ELSE IF ~jr.allowed
         THEN IF jr.advisory THEN "0"
              ELSE IF jr.planReason THEN "0"
              ELSE "1"
    ELSE "0"

\* lines 459-514: the exit code the judge's result maps to
judgeExit(jr, e) ==
    IF ~jr.ok THEN "1"
    ELSE IF ~jr.allowed
         THEN IF jr.advisory THEN "0"
              ELSE IF jr.planReason THEN "0"
              ELSE "1"
    ELSE IF \E m \in e.minConfidence : \E c \in jr.confidence : c < m THEN "1"
    ELSE "0"

Event(op, ref) == [op |-> op, ref |-> ref]

-----------------------------------------------------------------------------
(* run() as a state machine *)

RunInit ==
    /\ pc = "start"
    /\ env \in Envs
    /\ changedFiles = [computed |-> FALSE, files |-> <<>>]
    /\ text = <<>>
    /\ ids = <<>>
    /\ vi = 1
    /\ validated = {}
    /\ events = <<>>
    /\ out = <<>>
    /\ judgeResult = judgeFailed
    /\ exitCode = "none"

\* lines 344-346: git diff --name-only succeeds
GetChangedFiles ==
    /\ pc = "start"
    /\ \E files \in ChangedFileLists :
          changedFiles' = [computed |-> TRUE, files |-> files]
    /\ pc' = "policy"
    /\ UNCHANGED <<env, text, ids, vi, validated, events, out, judgeResult, exitCode>>
    /\ UNCHANGED dvars

\* lines 347-354: git throws
GetChangedFilesFail ==
    /\ pc = "start"
    /\ pc' = "done"
    /\ exitCode' = "1"
    /\ UNCHANGED <<env, changedFiles, text, ids, vi, validated, events, out, judgeResult>>
    /\ UNCHANGED dvars

\* lines 362-375, with the missing-variable check of line 393 made before the policy
\* is looked at
PolicyCheck_envFirst ==
    /\ pc = "policy"
    /\ IF missingEnv(env) # <<>>
       THEN pc' = "done" /\ exitCode' = "1"
       ELSE IF isDecisionRequired(changedFiles.files, env.extraPatterns).required
       THEN pc' = "extract" /\ UNCHANGED exitCode
       ELSE pc' = "done" /\ exitCode' = "0"
    /\ UNCHANGED <<env, changedFiles, text, ids, vi, validated, events, out, judgeResult>>
    /\ UNCHANGED dvars

\* lines 362-375
PolicyCheck ==
    /\ pc = "policy"
    /\ IF isDecisionRequired(changedFiles.files, env.extraPatterns).required
       THEN pc' = "extract" /\ UNCHANGED exitCode
       ELSE pc' = "done" /\ exitCode' = "0"
    /\ UNCHANGED <<env, changedFiles, text, ids, vi, validated, events, out, judgeResult>>
    /\ UNCHANGED dvars

\* lines 377-398
ExtractRefs ==
    /\ pc = "extract"
    /\ \E t \in Texts :
          /\ text' = t
          /\ ids' = extractDecisionIds(t)
          /\ events' = Append(events, Event("extract", ""))
          /\ IF extractDecisionIds(t) = <<>>
             THEN pc' = "done" /\ exitCode' = "1" /\ UNCHANGED out
             ELSE IF missingEnv(env) # <<>>
             THEN /\ pc' = "done"
                  /\ exitCode' = "1"
                  /\ out' = Append(out, [line |-> "missing env", names |-> missingEnv(env)])
             ELSE pc' = "validate" /\ UNCHANGED <<exitCode, out>>
    /\ UNCHANGED <<env, changedFiles, vi, validated, judgeResult>>
    /\ UNCHANGED dvars

\* lines 400-401, 247-272: validateRef(id) up to the await of fetch
ValidateRef ==
    /\ pc = "validate"
    /\ vi <= Len(ids)
    /\ IF env.baseUrl = "missing" \/ ~env.token
       THEN \* lines 248-250: not ok, no request; line 516
            /\ vi' = vi + 1
            /\ UNCHANGED <<pc, events, exitCode>>
       ELSE IF env.baseUrl = "malformed"
       THEN \* line 253: new URL() throws, outside the try
            /\ pc' = "done"
            /\ exitCode' = "threw"
            /\ UNCHANGED <<vi, events>>
       ELSE /\ events' = Append(events, Event("validate", ids[vi]))
            /\ pc' = "awaitValidate"
            /\ UNCHANGED <<vi, exitCode>>
    /\ UNCHANGED <<env, changedFiles, text, ids, validated, out, judgeResult>>
    /\ UNCHANGED dvars

\* lines 273-309, 402-433, with a failed validation ending the run instead of the
\* loop going on at line 516
ValidateSettle_failFast ==
    /\ pc = "awaitValidate"
    /\ \E o \in ValidateOutcomes :
          IF o = "bodyStall"
          THEN \* fetch resolved, line 273 disarmed the timer, res.json() never settles
               /\ pc' = "hung"
               /\ UNCHANGED <<vi, validated, out, exitCode>>
          ELSE IF o = "valid"
          THEN /\ validated' = validated \cup {ids[vi]}
               /\ UNCHANGED vi
               /\ IF ~env.judgeEnabled
                  THEN pc' = "done" /\ exitCode' = "0" /\ UNCHANGED out
                  ELSE IF missingJudgeEnv(env) # <<>>
                  THEN /\ pc' = "done"
                       /\ exitCode' = "1"
                       /\ out' = Append(out, [line |-> "judge missing env",
                                              names |-> missingJudgeEnv(env)])
                  ELSE pc' = "judgeDiff" /\ UNCHANGED <<exitCode, out>>
          ELSE /\ pc' = "done"
               /\ exitCode' = "1"
               /\ UNCHANGED <<vi, validated, out>>
    /\ UNCHANGED <<env, changedFiles, text, ids, events, judgeResult>>
    /\ UNCHANGED dvars

\* lines 273-309, 402-433, 516: the request settles
ValidateSettle ==
    /\ pc = "awaitValidate"
    /\ \E o \in ValidateOutcomes :
          IF o = "bodyStall"
          THEN \* fetch resolved, line 273 disarmed the timer, res.json() never settles
               /\ pc' = "hung"
               /\ UNCHANGED <<vi, validated, out, exitCode>>
          ELSE IF o = "valid"
          THEN /\ validated' = validated \cup {ids[vi]}
               /\ UNCHANGED vi
               /\ IF ~env.judgeEnabled
                  THEN pc' = "done" /\ exitCode' = "0" /\ UNCHANGED out
                  ELSE IF missingJudgeEnv(env) # <<>>
                  THEN /\ pc' = "done"
                       /\ exitCode' = "1"
                       /\ out' = Append(out, [line |-> "judge missing env",
                                              names |-> missingJudgeEnv(env)])
                  ELSE pc' = "judgeDiff" /\ UNCHANGED <<exitCode, out>>
          ELSE /\ vi' = vi + 1
               /\ pc' = "validate"
               /\ UNCHANGED <<validated, out, exitCode>>
    /\ UNCHANGED <<env, changedFiles, text, ids, events, judgeResult>>
    /\ UNCHANGED dvars

\* lines 519-526: no reference validated
NoneValid ==
    /\ pc = "validate"
    /\ vi > Len(ids)
    /\ pc' = "done"
    /\ exitCode' = "1"
    /\ UNCHANGED <<env, changedFiles, text, ids, vi, validated, events, out, judgeResult>>
    /\ UNCHANGED dvars

\* line 435: the reference the judge is asked about
judgeRef(refs, i) == refs[Len(refs)]

\* lines 435-448: getDiffForJudge is called; its result is not looked at here
JudgeBuildDiff ==
    /\ pc = "judgeDiff"
    /\ events' = Append(events, Event("diff", ""))
    /\ pc' = "judgeCall"
    /\ UNCHANGED <<env, changedFiles, text, ids, vi, validated, out, judgeResult, exitCode>>
    /\ UNCHANGED dvars

\* lines 451-457, 105-155: callJudge up to the await of fetch
JudgeCall ==
    /\ pc = "judgeCall"
    /\ events' = Append(events, Event("judge", judgeRef(ids, vi)))
    /\ pc' = "awaitJudge"
    /\ UNCHANGED <<env, changedFiles, text, ids, vi, validated, out, judgeResult, exitCode>>
    /\ UNCHANGED dvars

\* lines 156-205, 459-514: the judge request settles with a response
JudgeSettle ==
    /\ pc = "awaitJudge"
    /\ \E r \in JudgeResponses :
          /\ judgeResult' = judgeResultOf(r)
          /\ exitCode' = judgeExit(judgeResultOf(r), env)
    /\ pc' = "done"
    /\ UNCHANGED <<env, changedFiles, text, ids, vi, validated, events, out>>
    /\ UNCHANGED dvars

\* lines 194-205, 459-463: the judge request times out or fails on the network
JudgeFail ==
    /\ pc = "awaitJudge"
    /\ judgeResult' = judgeFailed
    /\ exitCode' = judgeExit(judgeFailed, env)
    /\ pc' = "done"
    /\ UNCHANGED <<env, changedFiles, text, ids, vi, validated, events, out>>
    /\ UNCHANGED dvars

\* lines 156-158: the response's headers arrive, the body never does
JudgeStall ==
    /\ pc = "awaitJudge"
    /\ pc' = "hung"
    /\ UNCHANGED <<env, changedFiles, text, ids, vi, validated, events, out, judgeResult,
                   exitCode>>
    /\ UNCHANGED dvars

RunNext ==
    \/ GetChangedFiles
    \/ GetChangedFilesFail
    \/ PolicyCheck
    \/ ExtractRefs
    \/ ValidateRef
    \/ ValidateSettle
    \/ NoneValid
    \/ JudgeBuildDiff
    \/ JudgeCall
    \/ JudgeSettle
    \/ JudgeFail
    \/ JudgeStall

-----------------------------------------------------------------------------
(* Specifications *)

\* getDiffForJudge alone: run() stays where it starts
IdleEnv ==
    [baseUrl |-> "ok", token |-> TRUE, judgeEnabled |-> FALSE, judgeMissing |-> {},
     minConfidence |-> {}, extraPatterns |-> {}]

InitDiff == DiffInit /\ RunInit /\ env = IdleEnv

SpecDiff == InitDiff /\ [][DiffNext]_vars

\* run() alone: getDiffForJudge stays where it starts
Init == RunInit /\ DiffInit /\ base = "origin/main"

Spec == Init /\ [][RunNext]_vars

-----------------------------------------------------------------------------
(* Properties of getDiffForJudge, checked under SpecDiff *)

Range(q) == { q[i] : i \in 1..Len(q) }

Returned == dpc = "done"

\* a segment that matches a classification rule
Classified(seg) ==
    \/ (pathFromSegment(seg) # <<>> /\ isImageOrHeavyByPath(pathFromSegment(seg)))
    \/ segmentIsBinary(seg)
    \/ byteLength(seg) > MAX_FILE_DIFF_BYTES

\* some admitted segment is in the output shorter than it was
WasCut == \E j \in 1..Len(included) : included[j] # segments[includedFrom[j]]

\* C1: the UTF-8 byte length of the diff returned is at most MAX_DIFF_BYTES,
\* separators and a truncated last segment included.
C1_DiffWithinBudget ==
    dpc \in {"done", "caught"} => byteLength(dresult.diff) <= MAX_DIFF_BYTES

\* C4: a segment that matches a classification rule contributes nothing to the
\* output, and its path, when it has one, is in excludedFiles.
C4_ClassifiedExcluded ==
    Returned =>
        /\ dresult.diff = join(included)
        /\ \A i \in 1..Len(segments) :
              Classified(segments[i]) =>
                  /\ i \notin Range(includedFrom)
                  /\ pathFromSegment(segments[i]) # <<>>
                        => pathFromSegment(segments[i]) \in Range(dresult.excludedFiles)

\* a large image, a binary section without a path, and text, with budget to spare
C4_Witness ==
    /\ Returned
    /\ Len(segments) = 3
    /\ \E i \in 1..3 : /\ pathFromSegment(segments[i]) = PathC
                       /\ byteLength(segments[i]) > 1000000
                       /\ i \notin Range(includedFrom)
    /\ \E i \in 1..3 : segmentIsBinary(segments[i]) /\ pathFromSegment(segments[i]) = <<>>
    /\ Len(included) = 1
    /\ dresult.excludedFiles = <<PathC>>

\* C5: truncated is true exactly when an admitted segment was cut or the raw diff
\* is over MAX_DIFF_BYTES.
C5_TruncatedIff ==
    Returned =>
        (dresult.truncated <=> (WasCut \/ byteLength(fullRaw) > MAX_DIFF_BYTES))

\* the raw diff is over the budget and nothing was cut
C5_Witness ==
    /\ Returned
    /\ byteLength(fullRaw) > MAX_DIFF_BYTES
    /\ ~WasCut
    /\ included # <<>>
    /\ dresult.truncated

\* the raw diff is one section of plain text of more than MAX_DIFF_BYTES
SingleLargeText ==
    /\ Returned
    /\ Len(segments) = 1
    /\ byteLength(segments[1]) > MAX_DIFF_BYTES
    /\ pathFromSegment(segments[1]) = PathA
    /\ ~segmentIsBinary(segments[1])
    /\ \A i \in 1..Len(segments[1]) : segments[1][i].k \in {"hdr", "nl", "t1"}

\* C6 as stated: one section of text over the ceiling comes back as its first
\* 2 MiB, with its path in excludedFiles and truncated set.
C6_FirstTwoMiB ==
    SingleLargeText =>
        /\ dresult.diff = slice(segments[1], MAX_DIFF_BYTES)
        /\ PathA \in Range(dresult.excludedFiles)
        /\ dresult.truncated

\* C6 as amended: one section of text over the ceiling is over the per-file
\* ceiling too, so the diff is empty; its path is in excludedFiles and truncated
\* is set.
C6_ExcludedWhole ==
    SingleLargeText =>
        /\ dresult.diff = <<>>
        /\ dresult.excludedFiles = <<PathA>>
        /\ dresult.truncated

C6_Witness == SingleLargeText /\ byteLength(segments[1]) > 3145728

\* the raw diff is A (500 KB of text), B (1.2 MB of text), C (a .png)
ThreeSections ==
    /\ Returned
    /\ \E c \in Templates :
          /\ c.p = PathC
          /\ fullRaw = RawDiff(<<Sec("hdr", PathA, FALSE, "t1", 512000),
                                 Sec("hdr", PathB, FALSE, "t1", 1258291), c>>)

\* C7 as stated: only A is in the diff, excludedFiles is [B, C], truncated is false.
C7_NeverTruncated ==
    ThreeSections =>
        /\ dresult.diff = segments[1]
        /\ dresult.excludedFiles = <<PathB, PathC>>
        /\ dresult.truncated = FALSE

\* C7 as amended: only A is in the diff, excludedFiles is [B, C], and truncated is
\* false exactly when the raw diff, C included, is at most MAX_DIFF_BYTES.
C7_TruncatedByRawSize ==
    ThreeSections =>
        /\ dresult.diff = segments[1]
        /\ dresult.excludedFiles = <<PathB, PathC>>
        /\ dresult.truncated = (byteLength(fullRaw) > MAX_DIFF_BYTES)

C7_Witness == ThreeSections /\ ~dresult.truncated /\ byteLength(segments[3]) < 1000

\* C8: a raw diff within the ceiling with no classified segment comes back whole:
\* every segment, in order, joined by one newline, nothing excluded, not truncated.
C8_UnderBudgetIdentity ==
    (/\ Returned
     /\ byteLength(fullRaw) <= MAX_DIFF_BYTES
     /\ \A i \in 1..Len(segments) : ~Classified(segments[i]))
    => /\ included = segments
       /\ dresult.diff = trim(fullRaw)
       /\ dresult.excludedFiles = <<>>
       /\ dresult.truncated = FALSE

C8_Witness ==
    /\ Returned
    /\ byteLength(fullRaw) <= MAX_DIFF_BYTES
    /\ Len(segments) = 4
    /\ \A i \in 1..Len(segments) : ~Classified(segments[i])
    /\ byteLength(fullRaw) > 1900000
    /\ \E i \in 1..4 : \E j \in 1..Len(segments[i]) : segments[i][j].k = "t3"

\* the place of the first push of path p
FirstPush(p) == Min({ i \in 1..Len(excludedFiles) : excludedFiles[i] = p })

\* C9: excludedFiles has no path twice, and is in the order of first exclusion.
C9_ExcludedDeduplicated ==
    Returned =>
        LET e == dresult.excludedFiles
        IN /\ \A i, j \in 1..Len(e) : i # j => e[i] # e[j]
           /\ Range(e) = Range(excludedFiles)
           /\ \A i, j \in 1..Len(e) : i < j => FirstPush(e[i]) < FirstPush(e[j])

\* b.ts is excluded as over 1 MiB, then c.PNG as an image, then b.ts again as the
\* segment that was cut
C9_Witness ==
    /\ Returned
    /\ excludedFiles = <<PathB, PathC, PathB>>
    /\ dresult.excludedFiles = <<PathB, PathC>>

\* C10: when git diff fails the result is empty, with the base and head given.
C10_GitFailureEmpty ==
    dpc = "caught" =>
        /\ dresult.diff = <<>>
        /\ dresult.excludedFiles = <<>>
        /\ dresult.truncated = FALSE
        /\ dresult.base = base
        /\ dresult.head = head

C10_Witness == dpc = "caught" /\ base = "HEAD~1" /\ dresult.head = "HEAD"

-----------------------------------------------------------------------------
(* Properties of run(), checked under Spec *)

NoHighImpact == \A i \in 1..Len(changedFiles.files) :
                    ~pathMatchesRequired(changedFiles.files[i], env.extraPatterns)

MayPass == (changedFiles.computed /\ NoHighImpact) \/ validated # {}

\* C2: run() returns 0 only if the changed files were computed and none is
\* high-impact, or a reference validated; every other run returns 1.
C2_ExitCodeRule ==
    pc = "done" =>
        /\ exitCode = "0" => MayPass
        /\ ~MayPass => exitCode = "1"

\* the half of C2 that the code keeps: run() returns 0 only if it may pass
C2_PassImpliesAllowed == exitCode = "0" => MayPass

\* C3: when the changed files are computed and no decision is required, run()
\* returns 0 at once: nothing is extracted, validated, diffed or judged.
C3_NotRequiredPasses ==
    (/\ pc \notin {"start", "policy"}
     /\ changedFiles.computed
     /\ NoHighImpact)
    => /\ pc = "done"
       /\ exitCode = "0"
       /\ events = <<>>
       /\ out = <<>>

C3_Witness ==
    /\ pc = "done"
    /\ changedFiles.computed
    /\ changedFiles.files # <<>>
    /\ NoHighImpact
    /\ env.baseUrl = "missing"
    /\ ~env.token
    /\ exitCode = "0"

\* the judge was called and run() has returned
JudgeRan == pc = "done" /\ \E i \in 1..Len(events) : events[i].op = "judge"

\* the judge allowed the change with a confidence under the configured minimum
BelowMinConfidence ==
    /\ judgeResult.allowed
    /\ \E m \in env.minConfidence : \E c \in judgeResult.confidence : c < m

\* C11: once the judge has been called, run() returns 1 when the call failed, when
\* the judge disallowed without advisory and without a plan reason, or when it
\* allowed with a confidence under DECERN_JUDGE_MIN_CONFIDENCE; it returns 0 in
\* every other case.
C11_JudgeDecides ==
    JudgeRan =>
        IF \/ ~judgeResult.ok
           \/ (~judgeResult.allowed /\ ~judgeResult.advisory /\ ~judgeResult.planReason)
           \/ BelowMinConfidence
        THEN exitCode = "1"
        ELSE exitCode = "0"

\* the judge allowed at 50% with a minimum of 70%, and the run is blocked
C11_Witness ==
    /\ JudgeRan
    /\ judgeResult.ok
    /\ BelowMinConfidence
    /\ exitCode = "1"

\* the variables of the validation endpoint that the environment lacks
MissingCore ==
    { v \in {"DECERN_BASE_URL"} : env.baseUrl = "missing" }
    \cup { v \in {"DECERN_CI_TOKEN"} : ~env.token }

\* the variables of the judge's LLM that the environment lacks, the judge being enabled
MissingJudge == IF env.judgeEnabled THEN env.judgeMissing ELSE {}

\* the variables named on the output lines about missing variables
NamedMissing == UNION { Range(out[i].names) : i \in 1..Len(out) }

Sent(op) == \E i \in 1..Len(events) : events[i].op = op

\* a decision is required and the text holds a reference
ReferenceFound == changedFiles.computed /\ ~NoHighImpact /\ ids # <<>>

\* C12 as stated: a run with a missing credential ends with exit code 1 and an
\* output line naming every missing variable, and the request that needs the
\* credential is never sent.
C12_MissingCredentialBlocks ==
    /\ MissingCore # {} => ~Sent("validate") /\ ~Sent("judge")
    /\ MissingJudge # {} => ~Sent("judge")
    /\ (pc = "done" /\ MissingCore \cup MissingJudge # {})
          => /\ exitCode = "1"
             /\ MissingCore \cup MissingJudge \subseteq NamedMissing

\* C12 as amended: with DECERN_BASE_URL or DECERN_CI_TOKEN missing no request is
\* ever sent, and a run that finds a required decision and a reference ends with
\* exit code 1 and one line naming exactly the missing ones of the two; with the
\* judge enabled and an LLM variable missing no judge request is ever sent, and a
\* run in which a reference validated ends with exit code 1 and one line naming
\* exactly the missing LLM variables.
C12_MissingCredentialWhenNeeded ==
    /\ MissingCore # {} => ~Sent("validate") /\ ~Sent("judge")
    /\ MissingJudge # {} => ~Sent("diff") /\ ~Sent("judge")
    /\ (pc = "done" /\ ReferenceFound /\ MissingCore # {})
          => /\ exitCode = "1"
             /\ Len(out) = 1
             /\ Range(out[1].names) = MissingCore
    /\ (pc = "done" /\ validated # {} /\ MissingJudge # {})
          => /\ exitCode = "1"
             /\ Len(out) = 1
             /\ Range(out[1].names) = MissingJudge

\* both variables of the validation endpoint are missing, a reference was found,
\* and the run is blocked with both named
C12_Witness ==
    /\ pc = "done"
    /\ ReferenceFound
    /\ MissingCore = {"DECERN_BASE_URL", "DECERN_CI_TOKEN"}
    /\ exitCode = "1"
    /\ Len(out) = 1
    /\ out[1].names = <<"DECERN_BASE_URL", "DECERN_CI_TOKEN">>

\* the place in the text of the first mention of id
FirstMention(id) == Min({ i \in 1..Len(text) : text[i].id = id })

\* C13: the list extracted from the text holds exactly the identifiers mentioned
\* in it, in any form, each once, in the order of their first mention in the text.
C13_FirstOccurrenceOrder ==
    /\ Range(ids) = { text[i].id : i \in 1..Len(text) }
    /\ \A i, j \in 1..Len(ids) : i # j => ids[i] # ids[j]
    /\ \A i, j \in 1..Len(ids) : i < j => FirstMention(ids[i]) < FirstMention(ids[j])

\* the part of C13 that the code keeps: exactly the identifiers mentioned, each once
C13_ExactlyOnce ==
    /\ Range(ids) = { text[i].id : i \in 1..Len(text) }
    /\ \A i, j \in 1..Len(ids) : i # j => ids[i] # ids[j]

-----------------------------------------------------------------------------
(* Further properties of getDiffForJudge, checked under SpecDiff *)

\* the bytes of the output before its j-th segment
RECURSIVE BytesBefore(_)
BytesBefore(j) ==
    IF j <= 1 THEN 0 ELSE BytesBefore(j - 1) + byteLength(included[j - 1])

\* the segments the loop has passed that no classification rule excludes and that
\* are not in the output
Skipped ==
    { i \in 1..(segi - 1) : i <= Len(segments) /\ ~isExcluded(segments[i])
                              /\ i \notin Range(includedFrom) }

-----------------------------------------------------------------------------
(* Further properties of run(), checked under Spec *)

IsValidate(e) == e.op = "validate"

\* the references of the validation requests sent so far, in the order sent
Requested ==
    LET sel == SelectSeq(events, IsValidate)
    IN [i \in 1..Len(sel) |-> sel[i].ref]

\* C15: the validation requests sent are the first references of the list, in its
\* order, each once; a request is sent only when every earlier one has failed,
\* none is sent after one that succeeded, and after a failure the loop stands at
\* the next reference: the run ends for want of a valid reference only when
\* every reference has been requested.
C15_SequentialValidation ==
    LET n == Len(Requested)
    IN /\ n <= Len(ids)
       /\ \A i \in 1..n : Requested[i] = ids[i]
       /\ \A i, j \in 1..n : i # j => Requested[i] # Requested[j]
       /\ \A i \in 1..(n - 1) : Requested[i] \notin validated
       /\ validated # {} => validated = {Requested[n]}
       /\ pc = "awaitValidate" => (n = vi /\ validated = {})
       /\ pc = "validate" => (n = vi - 1 /\ validated = {})
       /\ (pc = "done" /\ n > 0 /\ validated = {})
             => (Requested = ids /\ exitCode = "1")

\* the first of two references fails, the second validates, and the run passes
C15_Witness ==
    /\ pc = "done"
    /\ Len(ids) = 2
    /\ Requested = ids
    /\ validated = {ids[2]}
    /\ exitCode = "0"

\* a call whose fetch has resolved (the headers are in), whose timer lines 273 and
\* 156 have disarmed, and whose body has not come: nothing is left to end it
TimerDisarmedInFlight == pc = "hung"

\* C16: a validation or judge call that is not complete has its timer armed, so
\* that it is aborted and returns not-ok when the timeout elapses; no call waits
\* for the rest of a response with its timer disarmed.
C16_TimerArmedUntilComplete == ~TimerDisarmedInFlight

\* C17: the reference of every judge request sent is one whose validation
\* succeeded earlier in the run.
C17_JudgedRefValidated ==
    \A i \in 1..Len(events) : events[i].op = "judge" => events[i].ref \in validated

====
